---- MODULE Spec2Model ----
(***************************************************************************)
(* Model of meilisearch/raw-collections, src/map.rs: RawMap, an            *)
(* order-preserving map made of an ordered store (data) and a hash index   *)
(* (cache), and FrozenRawMap, the read-only view obtained by freeze().     *)
(*                                                                         *)
(* Positions are 0-based as in the code; data is a TLA+ sequence, so the   *)
(* entry at position p is data[p + 1].  Option<T> is a sequence of length  *)
(* at most one: None is << >> and Some(x) is << x >>.                      *)
(***************************************************************************)
EXTENDS Integers, Sequences, FiniteSets, TLC

\* ------------------------------------------------------------------ bounds
NumKeys == 3
MaxOps == 4
AddrLimit == 6
MaxMembers == 3

KeyNames == <<"a", "b", "c", "d", "e">>
Keys == {KeyNames[i] : i \in 1..NumKeys}
\* raw value fragments: two are enough to tell a stored value from another
Values == {"1", "[1,2]"}
\* arguments of reserve(): small requests, and one that passes the limit
\* once the map holds two entries
ReserveArgs == {0, 2, AddrLimit - 1}

\* ------------------------------------------------------------------ helpers
None == << >>
Some(x) == << x >>

Max(a, b) == IF a >= b THEN a ELSE b

VARIABLES
    data,       \* RawMap.data : sequence of [key, value], the ordered store
    cache,      \* RawMap.cache: function from the indexed keys to positions
    data_cap,   \* capacity of the data vector
    cache_cap,  \* capacity of the cache hash map
    view,       \* None, or Some(FrozenRawMap) while a frozen view is alive
    observed,   \* what the last read through the frozen view returned
    snap,       \* history: data and cache as they were at the last freeze()
    hist,       \* history: the calls made so far, with what they returned
    readers,    \* the threads that share the frozen view, each in its call
    de          \* the construction of the map from a JSON object fragment

vars == <<data, cache, data_cap, cache_cap, view, observed, snap, hist,
          readers, de>>

\* the threads the view is handed to: two are enough to interleave
Readers == {"r1", "r2"}

\* a reader that is in no call and holds no result
IdleReader == [pc |-> "idle", key |-> "", index |-> << >>, get |-> << >>,
               ret |-> << >>]

\* no construction from a fragment is under way
NoDe == [input |-> << >>, next |-> 0, inner |-> << >>, ret |-> << >>,
         out |-> << >>]

\* --------------------------------------------------- slices and the index
\* <[T]>::get(index): Some(element) when index is in bounds, else None
slice_get(s, index) ==
    IF index >= 0 /\ index < Len(s) THEN Some(s[index + 1]) ELSE None

\* HashMap::get(key): Some(position) when the key is indexed, else None
cache_get(c, key) ==
    IF key \in DOMAIN c THEN Some(c[key]) ELSE None

\* HashMap::len()
cache_len(c) == Cardinality(DOMAIN c)

EmptyCache == [k \in {} |-> 0]

\* ------------------------------------------------------- RawMap accessors
\* RawMap::get: look the key up in the cache, then dereference into data
RawMap_get(d, c, key) ==
    LET index == cache_get(c, key) IN
    IF index = None THEN None
    ELSE LET e == slice_get(d, index[1]) IN
         IF e = None THEN None ELSE Some(e[1].value)

\* RawMap::get_index
RawMap_get_index(c, key) == cache_get(c, key)

\* RawMap::len, RawMap::is_empty, RawMap::as_slice
RawMap_len(d) == Len(d)
\* variant of is_empty with the test the wrong way round
RawMap_is_empty_Inverted(d) == Len(d) # 0
RawMap_is_empty(d) == Len(d) = 0
RawMap_as_slice(d) == d

\* ------------------------------------------------------------ the call log
LogEntry(op, key, value, n, ret, panic) ==
    [op |-> op, key |-> key, value |-> value, n |-> n, ret |-> ret,
     panic |-> panic]

Budget == Len(hist) < MaxOps

\* ------------------------------------------------------------------- Init
\* RawMap::new_in / RawMap::with_hasher_in: both structures empty
Init ==
    /\ data = << >>
    /\ cache = EmptyCache
    /\ data_cap = 0
    /\ cache_cap = 0
    /\ view = None
    /\ observed = None
    /\ snap = [data |-> << >>, cache |-> EmptyCache]
    /\ hist = << >>
    /\ readers = [r \in Readers |-> IdleReader]
    /\ de = NoDe

\* ----------------------------------------------------------------- insert
\* variant of the Occupied arm that pushes the pair again instead of
\* replacing the value in place
InsertOccupied_Push(key, value) ==
    /\ data' = Append(data, [key |-> key, value |-> value])
    /\ hist' = Append(hist, LogEntry("insert", key, value, 0,
                                     Some(data[cache[key] + 1].value), FALSE))
    /\ UNCHANGED <<cache, data_cap, cache_cap>>

\* variant of the Occupied arm that returns the value it has just stored
InsertOccupied_ReturnNew(key, value) ==
    /\ data' = [data EXCEPT ![cache[key] + 1].value = value]
    /\ hist' = Append(hist, LogEntry("insert", key, value, 0,
                                     Some(value), FALSE))
    /\ UNCHANGED <<cache, data_cap, cache_cap>>

\* variant of the Occupied arm that keeps the value of the first insertion
InsertOccupied_KeepFirst(key, value) ==
    /\ hist' = Append(hist, LogEntry("insert", key, value, 0,
                                     Some(data[cache[key] + 1].value), FALSE))
    /\ UNCHANGED <<data, cache, data_cap, cache_cap>>

\* variant of the Occupied arm that writes the value into the first slot
InsertOccupied_FirstSlot(key, value) ==
    /\ data' = [data EXCEPT ![1].value = value]
    /\ hist' = Append(hist, LogEntry("insert", key, value, 0,
                                     Some(data[cache[key] + 1].value), FALSE))
    /\ UNCHANGED <<cache, data_cap, cache_cap>>

\* the Occupied arm: replace the value at the indexed position, return the
\* previous one; data.get_mut(index).unwrap() panics when out of bounds
InsertOccupied(key, value) ==
    LET index == cache[key] IN
    IF slice_get(data, index) = None
    THEN /\ hist' = Append(hist, LogEntry("insert", key, value, 0, None, TRUE))
         /\ UNCHANGED <<data, cache, data_cap, cache_cap>>
    ELSE /\ data' = [data EXCEPT ![index + 1].value = value]
         /\ hist' = Append(hist, LogEntry("insert", key, value, 0,
                                          Some(data[index + 1].value), FALSE))
         /\ UNCHANGED <<cache, data_cap, cache_cap>>

\* variant of the Vacant arm that reads the length after the push
InsertVacant_IndexAfterPush(key, value) ==
    LET index == Len(data) + 1 IN
    /\ data' = Append(data, [key |-> key, value |-> value])
    /\ cache' = [k \in DOMAIN cache \cup {key} |->
                    IF k = key THEN index ELSE cache[k]]
    /\ data_cap' = Max(data_cap, Len(data) + 1)
    /\ cache_cap' = Max(cache_cap, cache_len(cache) + 1)
    /\ hist' = Append(hist, LogEntry("insert", key, value, 0, None, FALSE))

\* variant of the Vacant arm that leaves out entry.insert(index)
InsertVacant_NotIndexed(key, value) ==
    /\ data' = Append(data, [key |-> key, value |-> value])
    /\ data_cap' = Max(data_cap, Len(data) + 1)
    /\ hist' = Append(hist, LogEntry("insert", key, value, 0, None, FALSE))
    /\ UNCHANGED <<cache, cache_cap>>

\* variant of the Vacant arm that puts the new pair in front of the store
InsertVacant_Front(key, value) ==
    /\ data' = <<[key |-> key, value |-> value]>> \o data
    /\ cache' = [k \in DOMAIN cache \cup {key} |->
                    IF k = key THEN 0 ELSE cache[k] + 1]
    /\ data_cap' = Max(data_cap, Len(data) + 1)
    /\ cache_cap' = Max(cache_cap, cache_len(cache) + 1)
    /\ hist' = Append(hist, LogEntry("insert", key, value, 0, None, FALSE))

\* the Vacant arm: push the pair, index it at the old length, return None
InsertVacant(key, value) ==
    LET index == Len(data) IN
    /\ data' = Append(data, [key |-> key, value |-> value])
    /\ cache' = [k \in DOMAIN cache \cup {key} |->
                    IF k = key THEN index ELSE cache[k]]
    /\ data_cap' = Max(data_cap, Len(data) + 1)
    /\ cache_cap' = Max(cache_cap, cache_len(cache) + 1)
    /\ hist' = Append(hist, LogEntry("insert", key, value, 0, None, FALSE))

\* variant of insert that takes no account of a live view
Insert_WhileBorrowed(key, value) ==
    /\ Budget
    /\ IF key \in DOMAIN cache
       THEN InsertOccupied(key, value)
       ELSE InsertVacant(key, value)
    /\ UNCHANGED <<view, observed, snap>>
    /\ UNCHANGED <<readers, de>>

\* RawMap::insert(&mut self, key, value): needs the map not to be borrowed
Insert(key, value) ==
    /\ Budget
    /\ view = None
    /\ IF key \in DOMAIN cache
       THEN InsertOccupied(key, value)
       ELSE InsertVacant(key, value)
    /\ UNCHANGED <<view, observed, snap>>
    /\ UNCHANGED <<readers, de>>

\* ---------------------------------------------------------------- reserve
\* variant of reserve that already panics when the capacity asked for is
\* exactly the limit
Reserve_PanicsAtLimit(additional) ==
    /\ Budget
    /\ view = None
    /\ IF Len(data) + additional >= AddrLimit
       THEN /\ hist' = Append(hist, LogEntry("reserve", "", "", additional,
                                             None, TRUE))
            /\ UNCHANGED <<data_cap, cache_cap>>
       ELSE /\ data_cap' = Max(data_cap, Len(data) + additional)
            /\ cache_cap' = Max(cache_cap, cache_len(cache) + additional)
            /\ hist' = Append(hist, LogEntry("reserve", "", "",
                                             additional, None, FALSE))
    /\ UNCHANGED <<data, cache, view, observed, snap>>
    /\ UNCHANGED <<readers, de>>

\* variant of reserve that replaces the cache by an empty one of the new
\* capacity
Reserve_FreshCache(additional) ==
    /\ Budget
    /\ view = None
    /\ IF Len(data) + additional > AddrLimit
       THEN /\ hist' = Append(hist, LogEntry("reserve", "", "", additional,
                                             None, TRUE))
            /\ UNCHANGED <<cache, data_cap, cache_cap>>
       ELSE /\ data_cap' = Max(data_cap, Len(data) + additional)
            /\ cache_cap' = Max(cache_cap, cache_len(cache) + additional)
            /\ cache' = EmptyCache
            /\ hist' = Append(hist, LogEntry("reserve", "", "",
                                             additional, None, FALSE))
    /\ UNCHANGED <<data, view, observed, snap>>
    /\ UNCHANGED <<readers, de>>

\* RawMap::reserve(&mut self, additional): data.reserve then cache.reserve;
\* a capacity beyond the addressable limit panics and changes nothing more
Reserve(additional) ==
    /\ Budget
    /\ view = None
    /\ IF Len(data) + additional > AddrLimit
       THEN /\ hist' = Append(hist, LogEntry("reserve", "", "", additional,
                                             None, TRUE))
            /\ UNCHANGED <<data_cap, cache_cap>>
       ELSE /\ data_cap' = Max(data_cap, Len(data) + additional)
            /\ IF cache_len(cache) + additional > AddrLimit
               THEN /\ hist' = Append(hist, LogEntry("reserve", "", "",
                                                     additional, None, TRUE))
                    /\ UNCHANGED cache_cap
               ELSE /\ cache_cap' = Max(cache_cap,
                                        cache_len(cache) + additional)
                    /\ hist' = Append(hist, LogEntry("reserve", "", "",
                                                     additional, None, FALSE))
    /\ UNCHANGED <<data, cache, view, observed, snap>>
    /\ UNCHANGED <<readers, de>>

\* ----------------------------------------------------------------- freeze
\* FrozenRawMap::new: data is the slice map.data.as_slice() (a pointer to
\* the store with its current length), cache a FrozenMap over map.cache
FrozenRawMap_new == [len |-> Len(data)]

\* RawMap::freeze(&mut self) -> FrozenRawMap<'_, ..>: borrows the map
\* exclusively for as long as the returned view is alive
Freeze ==
    /\ Budget
    /\ view = None
    /\ view' = Some(FrozenRawMap_new)
    /\ observed' = None
    /\ snap' = [data |-> data, cache |-> cache]
    /\ hist' = Append(hist, LogEntry("freeze", "", "", 0, None, FALSE))
    /\ UNCHANGED <<data, cache, data_cap, cache_cap>>
    /\ UNCHANGED <<readers, de>>

\* variant of the release in which the map stays borrowed
Release_StaysFrozen ==
    /\ Budget
    /\ view # None
    /\ hist' = Append(hist, LogEntry("release", "", "", 0, None, FALSE))
    /\ UNCHANGED <<data, cache, data_cap, cache_cap, view, observed, snap>>
    /\ UNCHANGED <<readers, de>>

\* the view goes out of scope: the exclusive borrow of the map ends
Release ==
    /\ Budget
    /\ view # None
    /\ view' = None
    /\ observed' = None
    /\ hist' = Append(hist, LogEntry("release", "", "", 0, None, FALSE))
    /\ UNCHANGED <<data, cache, data_cap, cache_cap, snap>>
    /\ readers' = [r \in Readers |-> IdleReader]
    /\ UNCHANGED de

\* --------------------------------------------------- FrozenRawMap accessors
\* the slice the view holds: the first view.len entries of the store
FrozenRawMap_as_slice == SubSeq(data, 1, view[1].len)
FrozenRawMap_len == Len(FrozenRawMap_as_slice)
FrozenRawMap_is_empty == Len(FrozenRawMap_as_slice) = 0

\* frozen::FrozenMap::get: read-only lookup in the borrowed hash map
FrozenMap_get(key) == cache_get(cache, key)

\* variant of the view's get that dereferences one position too far
FrozenRawMap_get_OffByOne(key) ==
    LET index == FrozenMap_get(key) IN
    IF index = None THEN None
    ELSE LET e == slice_get(FrozenRawMap_as_slice, index[1] + 1) IN
         IF e = None THEN None ELSE Some(e[1].value)

\* FrozenRawMap::get
FrozenRawMap_get(key) ==
    LET index == FrozenMap_get(key) IN
    IF index = None THEN None
    ELSE LET e == slice_get(FrozenRawMap_as_slice, index[1]) IN
         IF e = None THEN None ELSE Some(e[1].value)

\* FrozenRawMap::get_index
FrozenRawMap_get_index(key) == FrozenMap_get(key)

\* a holder of the view reads it: get, get_index, len, is_empty, as_slice
ViewRead(key) ==
    /\ view # None
    /\ observed' = Some([key |-> key,
                         get |-> FrozenRawMap_get(key),
                         get_index |-> FrozenRawMap_get_index(key),
                         len |-> FrozenRawMap_len,
                         is_empty |-> FrozenRawMap_is_empty,
                         as_slice |-> FrozenRawMap_as_slice])
    /\ observed' # observed
    /\ UNCHANGED <<data, cache, data_cap, cache_cap, view, snap, hist>>
    /\ UNCHANGED <<readers, de>>

\* ------------------------------------------------------------------- Next
Next ==
    \/ \E key \in Keys, value \in Values : Insert(key, value)
    \/ \E additional \in ReserveArgs : Reserve(additional)
    \/ Freeze
    \/ \E key \in Keys : ViewRead(key)
    \/ Release

Spec == Init /\ [][Next]_vars

\* ------------------------------------------- the view shared by threads
\* a thread starts reading key through the shared view
ReaderStart(r, key) ==
    /\ view # None
    /\ readers[r].pc = "idle"
    /\ readers' = [readers EXCEPT ![r] =
                      [IdleReader EXCEPT !.pc = "lookup", !.key = key]]
    /\ UNCHANGED <<data, cache, data_cap, cache_cap, view, observed, snap,
                   hist, de>>

\* FrozenRawMap::get_index, and the first half of FrozenRawMap::get:
\* self.cache.get(key)
ReaderLookup(r) ==
    /\ view # None
    /\ readers[r].pc = "lookup"
    /\ readers' = [readers EXCEPT ![r].pc = "deref",
                                  ![r].index = FrozenMap_get(readers[r].key)]
    /\ UNCHANGED <<data, cache, data_cap, cache_cap, view, observed, snap,
                   hist, de>>

\* the second half of FrozenRawMap::get: self.data.get(*index).map(..)
ReaderDeref(r) ==
    /\ view # None
    /\ readers[r].pc = "deref"
    /\ LET index == readers[r].index
           e == IF index = None THEN None
                ELSE slice_get(FrozenRawMap_as_slice, index[1])
       IN readers' = [readers EXCEPT
                        ![r].pc = "slice",
                        ![r].get = IF e = None THEN None
                                   ELSE Some(e[1].value)]
    /\ UNCHANGED <<data, cache, data_cap, cache_cap, view, observed, snap,
                   hist, de>>

\* FrozenRawMap::len, is_empty and as_slice; the thread then holds the
\* results of its five calls
ReaderSlice(r) ==
    /\ view # None
    /\ readers[r].pc = "slice"
    /\ readers' = [readers EXCEPT
                      ![r].pc = "idle",
                      ![r].ret = Some([len |-> FrozenRawMap_len,
                                       is_empty |-> FrozenRawMap_is_empty,
                                       as_slice |-> FrozenRawMap_as_slice])]
    /\ UNCHANGED <<data, cache, data_cap, cache_cap, view, observed, snap,
                   hist, de>>

\* the view is released once no thread is in a call on it
ReleaseShared ==
    /\ \A r \in Readers : readers[r].pc = "idle"
    /\ Release

\* a writer that fills the map and freezes it, and the threads that read
\* the view
NextShared ==
    \/ \E key \in Keys, value \in Values : Insert(key, value)
    \/ Freeze
    \/ \E r \in Readers, key \in Keys : ReaderStart(r, key)
    \/ \E r \in Readers : ReaderLookup(r)
    \/ \E r \in Readers : ReaderDeref(r)
    \/ \E r \in Readers : ReaderSlice(r)
    \/ ReleaseShared

SpecShared == Init /\ [][NextShared]_vars

\* ------------------------------------- construction from a JSON fragment
\* the tokens of a fragment: a kind and, for strings and values, the text
LBrace == <<"{", "">>
RBrace == <<"}", "">>
Colon == <<":", "">>
Comma == <<",", "">>
LBracket == <<"[", "">>
Str(k) == <<"str", k>>
Val(v) == <<"val", v>>
\* a value that is not well-formed JSON
BadVal == <<"bad", "">>

\* the keys and raw values that occur in fragments
FragKeys == {"a", "b"}
FragValues == {"1", "[1,2]", "3"}

Member(k, v) == [key |-> k, value |-> v]

\* the text of an object with the given members, in order
RECURSIVE MembersText(_)
MembersText(m) ==
    IF m = << >> THEN << >>
    ELSE LET one == <<Str(m[1].key), Colon, Val(m[1].value)>> IN
         IF Len(m) = 1 THEN one
         ELSE one \o <<Comma>> \o MembersText(Tail(m))

ObjectText(m) == <<LBrace>> \o MembersText(m) \o <<RBrace>>

MemberSeqs ==
    UNION {[1..n -> {Member(k, v) : k \in FragKeys, v \in FragValues}]
             : n \in 0..MaxMembers}

\* the fragments handed to the constructor: objects, objects cut short,
\* objects with a malformed value, and values that are not objects
Fragments ==
    LET objects == {ObjectText(m) : m \in MemberSeqs} IN
    objects
    \cup UNION {{SubSeq(t, 1, n) : n \in 0..(Len(t) - 1)} : t \in objects}
    \cup UNION {{[t EXCEPT ![4 * j] = BadVal] : j \in 1..((Len(t) - 1) \div 4)}
                 : t \in objects}
    \cup {<<LBracket>>, <<Val("1")>>}

ParseError(kind, pos) == Some([kind |-> kind, pos |-> pos])

\* the deserializer: the members of the fragment in source order, up to the
\* first error if there is one
RECURSIVE ParseFrom(_, _, _, _, _)
ParseFrom(toks, i, st, key, acc) ==
    LET tok == IF i <= Len(toks) THEN toks[i] ELSE <<"eof", "">>
        kind == tok[1]
        fail(what) == [members |-> acc, err |-> ParseError(what, i)]
    IN
    IF st = "end"
    THEN IF kind = "eof" THEN [members |-> acc, err |-> None]
         ELSE fail("trailing characters")
    ELSE IF kind = "eof" THEN fail("unexpected end of input")
    ELSE IF st = "start"
    THEN IF kind = "{" THEN ParseFrom(toks, i + 1, "first", key, acc)
         ELSE fail("invalid type")
    ELSE IF st \in {"first", "key"}
    THEN IF kind = "str" THEN ParseFrom(toks, i + 1, "colon", tok[2], acc)
         ELSE IF kind = "}" /\ st = "first"
              THEN ParseFrom(toks, i + 1, "end", key, acc)
              ELSE fail("syntax")
    ELSE IF st = "colon"
    THEN IF kind = ":" THEN ParseFrom(toks, i + 1, "value", key, acc)
         ELSE fail("syntax")
    ELSE IF st = "value"
    THEN IF kind = "val"
         THEN ParseFrom(toks, i + 1, "more", key,
                        Append(acc, Member(key, tok[2])))
         ELSE fail("syntax")
    ELSE \* st = "more"
         IF kind = "," THEN ParseFrom(toks, i + 1, "key", key, acc)
         ELSE IF kind = "}" THEN ParseFrom(toks, i + 1, "end", key, acc)
         ELSE fail("syntax")

Parse(toks) == ParseFrom(toks, 1, "start", "", << >>)

\* from_raw_value(raw, bump) is called with one fragment
InitParse ==
    /\ data = << >>
    /\ cache = EmptyCache
    /\ data_cap = 0
    /\ cache_cap = 0
    /\ view = None
    /\ observed = None
    /\ snap = [data |-> << >>, cache |-> EmptyCache]
    /\ hist = << >>
    /\ readers = [r \in Readers |-> IdleReader]
    /\ \E t \in Fragments : de = [NoDe EXCEPT !.input = t, !.next = 1]

\* from_deserializer: the next member of the fragment goes into the map
\* by the rule of insert
DeMember ==
    /\ de.next >= 1
    /\ de.inner = None
    /\ de.next <= Len(Parse(de.input).members)
    /\ LET m == Parse(de.input).members[de.next] IN
         IF m.key \in DOMAIN cache
         THEN InsertOccupied(m.key, m.value)
         ELSE InsertVacant(m.key, m.value)
    /\ de' = [de EXCEPT !.next = de.next + 1]
    /\ UNCHANGED <<view, observed, snap, readers>>

\* from_deserializer: the fragment ends, or the deserializer reports an
\* error and the map under construction is dropped
DeEnd ==
    /\ de.next >= 1
    /\ de.inner = None
    /\ de.next > Len(Parse(de.input).members)
    /\ IF Parse(de.input).err = None
       THEN /\ de' = [de EXCEPT !.inner = Some([ok |-> TRUE, err |-> None])]
            /\ UNCHANGED <<data, cache, data_cap, cache_cap>>
       ELSE /\ de' = [de EXCEPT !.inner =
                         Some([ok |-> FALSE, err |-> Parse(de.input).err])]
            /\ data' = << >>
            /\ cache' = EmptyCache
            /\ data_cap' = 0
            /\ cache_cap' = 0
    /\ UNCHANGED <<view, observed, snap, hist, readers>>

\* variant of from_raw_value that answers an error with an empty map
RawMap_from_raw_value_Swallows ==
    /\ de.inner # None
    /\ de.ret = None
    /\ de' = [de EXCEPT !.ret = Some([ok |-> TRUE, err |-> None])]
    /\ UNCHANGED <<data, cache, data_cap, cache_cap, view, observed, snap,
                   hist, readers>>

\* RawMap::from_raw_value / from_raw_value_and_hasher: returns what
\* from_deserializer returned
RawMap_from_raw_value ==
    /\ de.inner # None
    /\ de.ret = None
    /\ de' = [de EXCEPT !.ret = de.inner]
    /\ UNCHANGED <<data, cache, data_cap, cache_cap, view, observed, snap,
                   hist, readers>>

\* variant of serialize that walks the store from its end
RawMap_serialize_Backwards(d) ==
    [len |-> RawMap_len(d),
     text |-> ObjectText([i \in 1..Len(d) |-> d[Len(d) + 1 - i]])]

\* Serialize for RawMap: serialize_map(Some(len)), then one entry for each
\* pair of the store in order, key and raw value as they are, then end()
RawMap_serialize(d) ==
    [len |-> RawMap_len(d),
     text |-> <<LBrace>>
              \o MembersText([i \in 1..Len(d) |->
                                Member(d[i].key, d[i].value)])
              \o <<RBrace>>]

\* the map that was built is serialized
Serialize ==
    /\ de.ret # None
    /\ de.ret[1].ok
    /\ de.out = None
    /\ de' = [de EXCEPT !.out = Some(RawMap_serialize(data))]
    /\ UNCHANGED <<data, cache, data_cap, cache_cap, view, observed, snap,
                   hist, readers>>

NextParse ==
    \/ DeMember
    \/ DeEnd
    \/ RawMap_from_raw_value
    \/ Serialize

SpecParse == InitParse /\ [][NextParse]_vars

TypeOK ==
    /\ Len(data) <= NumKeys
    /\ DOMAIN cache \subseteq Keys
    /\ Len(hist) <= MaxOps

\* ------------------------------------------------- reading the call log
\* the calls of one operation, in call order
CallsOf(op) == SelectSeq(hist, LAMBDA e : e.op = op)

\* the insert calls that returned, in call order
Inserts == SelectSeq(hist, LAMBDA e : e.op = "insert" /\ ~e.panic)

InsertedKeys == {Inserts[i].key : i \in 1..Len(Inserts)}

\* the distinct keys of a sequence of calls, by first occurrence
RECURSIVE FirstOccurrences(_)
FirstOccurrences(calls) ==
    IF calls = << >> THEN << >>
    ELSE LET front == FirstOccurrences(SubSeq(calls, 1, Len(calls) - 1))
             k == calls[Len(calls)].key
         IN IF \E i \in 1..Len(front) : front[i] = k
            THEN front
            ELSE Append(front, k)

\* the keys of the ordered store, in store order
KeysOf(d) == [i \in 1..Len(d) |-> d[i].key]

\* ================================================================ claims

\* C1: in every reachable state the hash index (cache) holds as many
\* entries as the ordered store (data).
C1_CacheLenEqualsDataLen == cache_len(cache) = Len(data)

\* two entries, the second one inserted after a freeze and a release
C1_Witness ==
    /\ Len(data) = 2
    /\ Len(CallsOf("release")) >= 1
    /\ Len(hist) >= 1
    /\ hist[Len(hist)].op = "insert"

\* C2: every key k the index maps to position p is the key stored at
\* data[p]: get_index(k) = Some(p) implies as_slice()[p].0 = k.
C2_IndexConsistency ==
    \A k \in Keys :
        LET p == RawMap_get_index(cache, k) IN
        p # None =>
            /\ slice_get(RawMap_as_slice(data), p[1]) # None
            /\ slice_get(RawMap_as_slice(data), p[1])[1].key = k

\* three keys are indexed, the last one at position 2
C2_Witness ==
    /\ Len(data) = 3
    /\ \E k \in Keys : RawMap_get_index(cache, k) = Some(2)

\* C3: no two distinct positions of the ordered store hold the same key.
C3_NoDuplicateKeys ==
    \A i, j \in 1..Len(data) : i # j => data[i].key # data[j].key

\* a key was inserted again after another key had been inserted
C3_Witness ==
    /\ Len(data) >= 2
    /\ \E i, j \in 1..Len(Inserts) :
          /\ i + 1 < j
          /\ Inserts[i].key = Inserts[j].key
          /\ Inserts[i + 1].key # Inserts[i].key

\* C4: the keys of as_slice() are the distinct keys of the insert calls
\* in order of first occurrence, and len() is the number of distinct keys.
C4_OrderOfFirstInsertion ==
    /\ KeysOf(RawMap_as_slice(data)) = FirstOccurrences(Inserts)
    /\ RawMap_len(data) = Cardinality(InsertedKeys)

\* the calls a, b, a, c (for some distinct keys) have been made
C4_Witness ==
    /\ Len(Inserts) >= 4
    /\ Inserts[1].key = Inserts[3].key
    /\ Inserts[2].key # Inserts[1].key
    /\ Inserts[4].key \notin {Inserts[1].key, Inserts[2].key}
    /\ Len(data) = 3

\* the last call of the log, and the steps that add a call to it
Last == hist[Len(hist)]
Called(op) ==
    /\ Len(hist') = Len(hist) + 1
    /\ hist'[Len(hist')].op = op

\* C5: insert(k, v2) on a map holding k with value v1 returns v1, makes
\* get(k) return v2 and leaves len(), get_index(k) and the order of the
\* keys of as_slice() unchanged.
C5_OverwriteInPlace ==
    [][\A k \in Keys :
        (/\ Called("insert")
         /\ hist'[Len(hist')].key = k
         /\ RawMap_get_index(cache, k) # None)
        => /\ ~hist'[Len(hist')].panic
           /\ RawMap_get(data, cache, k) # None
           /\ hist'[Len(hist')].ret = RawMap_get(data, cache, k)
           /\ RawMap_get(data', cache', k) = Some(hist'[Len(hist')].value)
           /\ RawMap_len(data') = RawMap_len(data)
           /\ RawMap_get_index(cache', k) = RawMap_get_index(cache, k)
           /\ KeysOf(RawMap_as_slice(data')) = KeysOf(RawMap_as_slice(data))
      ]_vars

\* the last call overwrote the first of two entries with a different value
C5_Witness ==
    /\ Len(hist) >= 1
    /\ Len(data) >= 2
    /\ Last.op = "insert"
    /\ Last.ret # None
    /\ Last.ret # Some(Last.value)
    /\ Last.key = data[1].key

\* C6: insert(k, v) on a map that does not hold k returns nothing, appends
\* (k, v) at position len() of before the call, increases len() by one,
\* and afterwards get_index(k) is that old len().
C6_AppendWhenAbsent ==
    [][\A k \in Keys :
        (/\ Called("insert")
         /\ hist'[Len(hist')].key = k
         /\ RawMap_get_index(cache, k) = None)
        => /\ ~hist'[Len(hist')].panic
           /\ hist'[Len(hist')].ret = None
           /\ RawMap_len(data') = RawMap_len(data) + 1
           /\ SubSeq(RawMap_as_slice(data'), 1, RawMap_len(data))
                 = RawMap_as_slice(data)
           /\ slice_get(RawMap_as_slice(data'), RawMap_len(data))
                 = Some([key |-> k, value |-> hist'[Len(hist')].value])
           /\ RawMap_get_index(cache', k) = Some(RawMap_len(data))
      ]_vars

\* the last call appended a third entry
C6_Witness ==
    /\ Len(hist) >= 1
    /\ Last.op = "insert"
    /\ Last.ret = None
    /\ Len(data) = 3
    /\ data[3].key = Last.key
    /\ RawMap_get_index(cache, Last.key) = Some(2)

\* the reference map: each inserted key with the value of its last insert
RefGet(k) ==
    IF k \in InsertedKeys
    THEN LET last == CHOOSE i \in 1..Len(Inserts) :
                        /\ Inserts[i].key = k
                        /\ \A j \in 1..Len(Inserts) :
                              Inserts[j].key = k => j <= i
         IN Some(Inserts[last].value)
    ELSE None

\* the position of a key among the distinct keys inserted, if any
RefIndex(k) ==
    LET order == FirstOccurrences(Inserts) IN
    IF \E i \in 1..Len(order) : order[i] = k
    THEN Some((CHOOSE i \in 1..Len(order) : order[i] = k) - 1)
    ELSE None

\* C7: for every key k, get(k) is the value of the most recent insert of k
\* and get_index(k) its position when k was inserted, both are nothing when
\* it never was, and one is nothing exactly when the other is.
C7_MatchesReferenceMap ==
    \A k \in Keys :
        /\ RawMap_get(data, cache, k) = RefGet(k)
        /\ RawMap_get_index(cache, k) = RefIndex(k)
        /\ (RawMap_get(data, cache, k) = None
              <=> RawMap_get_index(cache, k) = None)

\* a key inserted twice with different values, and a key never inserted
C7_Witness ==
    /\ \E i, j \in 1..Len(Inserts) :
          /\ i < j
          /\ Inserts[i].key = Inserts[j].key
          /\ Inserts[i].value # Inserts[j].value
    /\ Len(data) >= 2
    /\ \E k \in Keys : RawMap_get(data, cache, k) = None

\* C8: while a frozen view is alive no insert or reserve happens on the
\* source map, and the view's len() and as_slice() stay what they are.
C8_FreezeIsolation ==
    [][view # None =>
        /\ ~Called("insert")
        /\ ~Called("reserve")
        /\ view' # None =>
              /\ FrozenRawMap_len' = FrozenRawMap_len
              /\ FrozenRawMap_as_slice' = FrozenRawMap_as_slice
      ]_vars

\* a view over two entries is alive and has been read
C8_Witness ==
    /\ view # None
    /\ observed # None
    /\ FrozenRawMap_len = 2

\* C9: a live view answers get(k) and get_index(k), for every key k, as
\* the source map did just before freeze(), and its len(), is_empty() and
\* as_slice() are the source's.
C9_ViewEqualsSource ==
    view # None =>
        /\ \A k \in Keys :
              /\ FrozenRawMap_get(k) = RawMap_get(snap.data, snap.cache, k)
              /\ FrozenRawMap_get_index(k) = RawMap_get_index(snap.cache, k)
        /\ FrozenRawMap_len = RawMap_len(snap.data)
        /\ FrozenRawMap_is_empty = RawMap_is_empty(snap.data)
        /\ FrozenRawMap_as_slice = RawMap_as_slice(snap.data)
        /\ observed # None =>
              /\ observed[1].get
                    = RawMap_get(snap.data, snap.cache, observed[1].key)
              /\ observed[1].get_index
                    = RawMap_get_index(snap.cache, observed[1].key)
              /\ observed[1].len = RawMap_len(snap.data)
              /\ observed[1].is_empty = RawMap_is_empty(snap.data)
              /\ observed[1].as_slice = RawMap_as_slice(snap.data)

\* a view over two entries returned the value of the first one
C9_Witness ==
    /\ view # None
    /\ Len(snap.data) = 2
    /\ observed # None
    /\ observed[1].get_index = Some(0)
    /\ observed[1].get = Some(snap.data[1].value)

\* with no live view the map takes insert, reserve and freeze
MutableAgain ==
    (view = None /\ Budget) =>
        /\ \A k \in Keys, v \in Values : ENABLED Insert(k, v)
        /\ \A n \in ReserveArgs : ENABLED Reserve(n)
        /\ ENABLED Freeze

C12_PositionsAreStable ==
    [][\A k \in Keys :
        RawMap_get_index(cache, k) # None
        => RawMap_get_index(cache', k) = RawMap_get_index(cache, k)
      ]_vars

\* one key, then reserve(2), then two further distinct keys
C12_Witness ==
    /\ Len(hist) = 4
    /\ hist[1].op = "insert"
    /\ hist[2].op = "reserve" /\ hist[2].n = 2 /\ ~hist[2].panic
    /\ hist[3].op = "insert" /\ hist[3].ret = None
    /\ hist[4].op = "insert" /\ hist[4].ret = None
    /\ Len(data) = 3
    /\ RawMap_get_index(cache, hist[1].key) = Some(0)

\* C16: a map into which nothing was inserted has len() = 0, is_empty(),
\* an empty as_slice(), and get(k) and get_index(k) return nothing for
\* every key; the same holds for a frozen view of it.
C16_EmptyMapBaseline ==
    Len(CallsOf("insert")) = 0 =>
        /\ RawMap_len(data) = 0
        /\ RawMap_is_empty(data)
        /\ RawMap_as_slice(data) = << >>
        /\ \A k \in Keys :
              /\ RawMap_get(data, cache, k) = None
              /\ RawMap_get_index(cache, k) = None
        /\ view # None =>
              /\ FrozenRawMap_len = 0
              /\ FrozenRawMap_is_empty
              /\ FrozenRawMap_as_slice = << >>
              /\ \A k \in Keys :
                    /\ FrozenRawMap_get(k) = None
                    /\ FrozenRawMap_get_index(k) = None
              /\ observed # None =>
                    /\ observed[1].get = None
                    /\ observed[1].get_index = None
                    /\ observed[1].len = 0
                    /\ observed[1].is_empty
                    /\ observed[1].as_slice = << >>

\* the freshly constructed map was frozen and read through the view
C16_Witness ==
    /\ Len(hist) = 1
    /\ hist[1].op = "freeze"
    /\ view # None
    /\ observed # None

\* C17: insert, get and freeze never fail: every indexed position is below
\* len(), no insert or freeze call panicked, and get returns a value for
\* every key the index contains.
C17_NeverFails ==
    /\ \A k \in DOMAIN cache : cache[k] >= 0 /\ cache[k] < RawMap_len(data)
    /\ \A i \in 1..Len(hist) :
          hist[i].op \in {"insert", "freeze"} => ~hist[i].panic
    /\ \A k \in Keys :
          RawMap_get_index(cache, k) # None => RawMap_get(data, cache, k) # None

\* the entry at the last position of a three-entry map was overwritten
C17_Witness ==
    /\ Len(hist) >= 1
    /\ Last.op = "insert"
    /\ Last.ret # None
    /\ Len(data) = 3
    /\ RawMap_get_index(cache, Last.key) = Some(2)

C19_ReserveChangesNothing ==
    [][(Called("reserve") /\ ~hist'[Len(hist')].panic) =>
        /\ RawMap_len(data') = RawMap_len(data)
        /\ RawMap_is_empty(data') = RawMap_is_empty(data)
        /\ RawMap_as_slice(data') = RawMap_as_slice(data)
        /\ \A k \in Keys :
              /\ RawMap_get(data', cache', k) = RawMap_get(data, cache, k)
              /\ RawMap_get_index(cache', k) = RawMap_get_index(cache, k)
      ]_vars

\* reserve(2) returned on a map of two entries and grew both capacities
C19_Witness ==
    /\ Len(hist) >= 1
    /\ Last.op = "reserve"
    /\ Last.n = 2
    /\ ~Last.panic
    /\ Len(data) = 2
    /\ data_cap = 4
    /\ cache_cap = 4

\* C20: insert(k, v) leaves get(j) and get_index(j) of every other key j
\* and the key of every position below the old len() as they were; an
\* overwrite changes nothing but the value at get_index(k).
C20_InsertFrame ==
    [][\A k \in Keys :
        (Called("insert") /\ hist'[Len(hist')].key = k) =>
          /\ \A j \in Keys \ {k} :
                /\ RawMap_get(data', cache', j) = RawMap_get(data, cache, j)
                /\ RawMap_get_index(cache', j) = RawMap_get_index(cache, j)
          /\ RawMap_len(data') >= RawMap_len(data)
          /\ \A p \in 1..Len(data) : data'[p].key = data[p].key
          /\ RawMap_get_index(cache, k) # None =>
                /\ cache' = cache
                /\ data' = [data EXCEPT ![cache[k] + 1].value
                                            = hist'[Len(hist')].value]
      ]_vars

\* the second of three entries was overwritten with a different value
C20_Witness ==
    /\ Len(hist) = 4
    /\ Len(data) = 3
    /\ Last.op = "insert"
    /\ Last.ret # None
    /\ Last.ret # Some(Last.value)
    /\ Last.key = data[2].key

\* what the calls of a reader return when made one after the other on the
\* map as it was frozen
SequentialResult(key) ==
    [get |-> RawMap_get(snap.data, snap.cache, key),
     get_index |-> RawMap_get_index(snap.cache, key),
     rest |-> Some([len |-> RawMap_len(snap.data),
                    is_empty |-> RawMap_is_empty(snap.data),
                    as_slice |-> RawMap_as_slice(snap.data)])]

\* C11: while the view is alive, the calls of the reader threads return,
\* however they interleave, what they return made one after the other;
\* no thread waits for another, and no insert or reserve is enabled.
C11_ConcurrentReaders ==
    view # None =>
        /\ \A r \in Readers :
              /\ readers[r].pc \in {"deref", "slice"} =>
                    readers[r].index = SequentialResult(readers[r].key).get_index
              /\ (readers[r].pc = "slice" \/ readers[r].ret # None) =>
                    readers[r].get = SequentialResult(readers[r].key).get
              /\ readers[r].ret # None =>
                    /\ readers[r].index
                          = SequentialResult(readers[r].key).get_index
                    /\ readers[r].ret = SequentialResult(readers[r].key).rest
              /\ readers[r].pc = "idle" =>
                    \A k \in Keys : ENABLED ReaderStart(r, k)
              /\ readers[r].pc = "lookup" => ENABLED ReaderLookup(r)
              /\ readers[r].pc = "deref" => ENABLED ReaderDeref(r)
              /\ readers[r].pc = "slice" => ENABLED ReaderSlice(r)
        /\ \A k \in Keys, v \in Values : ~ENABLED Insert(k, v)
        /\ \A n \in ReserveArgs : ~ENABLED Reserve(n)

\* one thread holds the results of its calls on a two-entry map while the
\* other is between the two halves of a get that found its key
C11_Witness ==
    /\ view # None
    /\ Len(snap.data) = 2
    /\ readers["r1"].ret # None
    /\ readers["r1"].get # None
    /\ readers["r2"].pc = "deref"
    /\ readers["r2"].index = Some(1)

\* the value of the last member of m that has key k
LastValueIn(m, k) ==
    m[CHOOSE i \in 1..Len(m) :
        /\ m[i].key = k
        /\ \A j \in 1..Len(m) : m[j].key = k => j <= i].value

\* the fragment {"a":1,"b":[1,2],"a":3}
ExampleFragment ==
    ObjectText(<<Member("a", "1"), Member("b", "[1,2]"), Member("a", "3")>>)

\* C13: the map built from an object fragment is the map obtained by
\* inserting its members in source order: each distinct key at the place
\* of its first occurrence with the value of its last, so that
\* {"a":1,"b":[1,2],"a":3} gives len() = 2 and [("a","3"), ("b","[1,2]")].
C13_ConstructionFollowsInsert ==
    (de.ret # None /\ de.ret[1].ok) =>
        LET m == Parse(de.input).members IN
        /\ KeysOf(RawMap_as_slice(data)) = FirstOccurrences(m)
        /\ RawMap_len(data) = Cardinality({m[i].key : i \in 1..Len(m)})
        /\ \A i \in 1..Len(data) :
              data[i].value = LastValueIn(m, data[i].key)
        /\ \A k \in FragKeys :
              IF \E i \in 1..Len(m) : m[i].key = k
              THEN /\ RawMap_get(data, cache, k) = Some(LastValueIn(m, k))
                   /\ RawMap_get_index(cache, k) # None
                   /\ FirstOccurrences(m)[RawMap_get_index(cache, k)[1] + 1]
                         = k
              ELSE /\ RawMap_get(data, cache, k) = None
                   /\ RawMap_get_index(cache, k) = None
        /\ de.input = ExampleFragment =>
              /\ RawMap_len(data) = 2
              /\ RawMap_as_slice(data)
                    = <<Member("a", "3"), Member("b", "[1,2]")>>

\* the map built from {"a":1,"b":[1,2],"a":3} has been returned
C13_Witness ==
    /\ de.input = ExampleFragment
    /\ de.ret # None
    /\ de.ret[1].ok
    /\ Len(data) = 2
    /\ Len(hist) = 3

\* a fragment that does not parse gives the caller the error of the
\* deserializer and no map; a fragment that parses gives a map
ErrorReturnedUnchanged ==
    de.ret # None =>
        IF Parse(de.input).err # None
        THEN /\ ~de.ret[1].ok
             /\ de.ret[1].err = Parse(de.input).err
             /\ de.ret = de.inner
             /\ data = << >>
             /\ cache = EmptyCache
        ELSE de.ret[1].ok

\* C14: construction from a fragment that is not an object, or holds a
\* malformed value, returns the parse error unchanged and no map, and the
\* fragment is gone through once: nothing is read or inserted again after
\* the error.
C14_ParseErrorAndNoMap ==
    /\ []ErrorReturnedUnchanged
    /\ [][/\ de'.input = de.input
          /\ de'.next >= de.next
          /\ de.inner # None =>
                /\ de'.inner = de.inner
                /\ de'.next = de.next
                /\ hist' = hist
                /\ data' = data
         ]_vars

\* two members had gone into the map when the malformed third was met;
\* the caller got the error and nothing else
C14_Witness ==
    /\ de.ret # None
    /\ ~de.ret[1].ok
    /\ de.ret[1].err = ParseError("syntax", 12)
    /\ Len(hist) = 2
    /\ hist[1].key # hist[2].key
    /\ data = << >>

\* no key occurs twice among the members
NoDuplicateMembers(m) ==
    \A i, j \in 1..Len(m) : i # j => m[i].key # m[j].key

\* C15: serializing a map emits len() members in the order of as_slice(),
\* keys and raw values as they are; for a fragment with no duplicate keys,
\* building the map, serializing it and parsing the output gives the pairs
\* of the fragment in the same order.
C15_SerializationFidelity ==
    de.out # None =>
        LET out == de.out[1]
            again == Parse(out.text)
            pairs == [i \in 1..Len(data) |->
                        Member(data[i].key, data[i].value)]
        IN
        /\ out.len = RawMap_len(data)
        /\ again.err = None
        /\ Len(again.members) = RawMap_len(data)
        /\ again.members = pairs
        /\ NoDuplicateMembers(Parse(de.input).members) =>
              again.members = Parse(de.input).members

\* a fragment of two members with different keys and values was built
\* into a map and serialized
C15_Witness ==
    /\ de.out # None
    /\ Len(Parse(de.input).members) = 2
    /\ NoDuplicateMembers(Parse(de.input).members)
    /\ Len(data) = 2
    /\ data[1].value # data[2].value
    /\ Len(de.out[1].text) = 9
====
